---- MODULE Spec2Model ----
(***************************************************************************)
(* Battery Design Tool (src/battery_tool.py).                              *)
(*                                                                         *)
(* The script reads fourteen number_input widgets, calls                   *)
(* calculate_metrics on their values and shows the three results; every    *)
(* widget edit re-runs the script.  All arithmetic in calculate_metrics is *)
(* Python float arithmetic: IEEE-754 binary floating point, round to       *)
(* nearest, ties to even, gradual underflow, overflow to inf, NaN, and a   *)
(* ZeroDivisionError on a zero divisor.  The model keeps exactly that      *)
(* arithmetic in a scaled-down binary format (Prec significand bits,       *)
(* exponents Emin..Emax), so rounding, underflow and overflow all occur    *)
(* within a small state space.  Every operand in the program is            *)
(* non-negative (the widgets have min_value 0 and percentages are capped   *)
(* at 100, so 1 - porosity_frac >= 0): the format carries no sign.         *)
(* cell_layers is the value of an int number_input; it and cell_layers + 1 *)
(* are small enough to convert to float exactly.                           *)
(***************************************************************************)
EXTENDS Integers

(***************************************************************************)
(* Format of the floating-point numbers: a finite number is m * 2^e with   *)
(* 0 <= m < 2^Prec and Emin <= e <= Emax; it is normal when                *)
(* m >= 2^(Prec-1) and subnormal (or zero) when e = Emin and m is smaller. *)
(***************************************************************************)
Prec == 7

EminMag == 16

Emax == 18

Emin == 0 - EminMag

\* Number of widget edits followed in one session.
MaxEdits == 2

\* 2^Prec and 2^(Prec-1): the bounds of a normal significand.
TwoP == 2 ^ Prec

HalfP == 2 ^ (Prec - 1)

(***************************************************************************)
(* A value is [k, m, e, ok]: k is its kind, "fin" (m * 2^e), "inf", "nan", *)
(* "zde" (the evaluation raised ZeroDivisionError) or "unset" (a local not *)
(* assigned yet).  ok is the floating-point status of the expression that  *)
(* produced it: TRUE while no operation in it overflowed, underflowed or   *)
(* met inf or NaN.  Python does not expose that status; values held in     *)
(* variables have ok = TRUE and the status is accumulated per call in the  *)
(* frame's range_ok.                                                       *)
(***************************************************************************)
Fin(m, e) == [k |-> "fin", m |-> m, e |-> e, ok |-> TRUE]

Zero == Fin(0, Emin)

Inf == [k |-> "inf", m |-> 0, e |-> 0, ok |-> TRUE]

NaN == [k |-> "nan", m |-> 0, e |-> 0, ok |-> TRUE]

ZeroDivisionError == [k |-> "zde", m |-> 0, e |-> 0, ok |-> TRUE]

Unset == [k |-> "unset", m |-> 0, e |-> 0, ok |-> TRUE]

MinSubnormal == Fin(1, Emin)

MaxFloat == Fin(TwoP - 1, Emax)

\* x with status s, and x with a clean status.
Flag(x, s) == [x EXCEPT !.ok = s]

Clean(x) == [x EXCEPT !.ok = TRUE]

IsNum(x) == x.k \in {"fin", "inf"}

IsFinite(x) == x.k = "fin"

IsNormal(x) == x.k = "fin" /\ x.m >= HalfP

IsZero(x) == x.k = "fin" /\ x.m = 0

\* The values, and the pairs of operands of a binary operation.
Floats ==
  [k : {"fin", "inf", "nan", "zde", "unset"}, m : Nat, e : Int, ok : BOOLEAN]

Operands == Floats \X Floats

(***************************************************************************)
(* Round(n, d, e): the float nearest to the exact value (n/d) * 2^e, ties  *)
(* to the even significand; values below half the smallest subnormal       *)
(* become 0, values that round past MaxFloat become inf.  The status is    *)
(* TRUE when the result is a normal number or the exact value is 0.        *)
(***************************************************************************)
RECURSIVE Round(_, _, _)
RoundV(n, d, e) ==
  IF n = 0 THEN Zero
  ELSE IF n >= d * TwoP THEN Round(n, 2 * d, e + 1)
  ELSE IF e < Emin - Prec - 1 THEN Flag(Zero, FALSE)
  ELSE IF n < d * HalfP /\ e > Emin THEN Round(2 * n, d, e - 1)
  ELSE IF e < Emin THEN Round(n, 2 * d, e + 1)
  ELSE IF e > Emax THEN Flag(Inf, FALSE)
  ELSE IF 2 * (n % d) > d \/ (2 * (n % d) = d /\ (n \div d) % 2 = 1)
       THEN IF (n \div d) + 1 = TwoP
            THEN IF e + 1 > Emax THEN Flag(Inf, FALSE) ELSE Fin(HalfP, e + 1)
            ELSE Flag(Fin((n \div d) + 1, e), (n \div d) + 1 >= HalfP)
       ELSE Flag(Fin(n \div d, e), (n \div d) >= HalfP)

\* The arguments are evaluated, then rounded.
RoundF[t \in Nat \X Nat \X Int] == RoundV(t[1], t[2], t[3])

Round(n, d, e) == RoundF[<<n, d, e>>]

\* A decimal literal n/d of the source text, converted to the nearest float.
Lit(n, d) == Clean(Round(n, d, 0))

\* int -> float conversion of an int operand of a float operation.
FromInt(n) == Clean(Round(n, 1, 0))

\* The float literals and int operands that appear in calculate_metrics.
c1 == FromInt(1)

c2 == FromInt(2)

c10 == FromInt(10)

c1000 == FromInt(1000)

c100 == Lit(100, 1)

c1282 == Lit(1282, 1000)

\* x < y; every comparison with NaN is false.
FLessV(x, y) ==
  IF ~IsNum(x) \/ ~IsNum(y) THEN FALSE
  ELSE IF x.k = "inf" THEN FALSE
  ELSE IF y.k = "inf" THEN TRUE
  ELSE x.e < y.e \/ (x.e = y.e /\ x.m < y.m)

\* Status of an operation on x and y whose rounded result is r.
Status(x, y, r) == Flag(r, x.ok /\ y.ok /\ r.ok)

\* An operand that raised makes the whole expression raise; any other
\* operand that is not a number gives NaN.
Special(x, y) ==
  IF x.k = "zde" \/ y.k = "zde" THEN ZeroDivisionError
  ELSE Flag(NaN, FALSE)

FMulV(x, y) ==
  IF ~IsNum(x) \/ ~IsNum(y) THEN Special(x, y)
  ELSE IF x.k = "inf" \/ y.k = "inf"
       THEN Flag(IF IsZero(x) \/ IsZero(y) THEN NaN ELSE Inf, FALSE)
  ELSE Status(x, y, Round(x.m * y.m, 1, x.e + y.e))

\* Python raises ZeroDivisionError for a float division by 0.0.
FDivV(x, y) ==
  IF x.k = "zde" \/ y.k = "zde" \/ IsZero(y) THEN ZeroDivisionError
  ELSE IF ~IsNum(x) \/ ~IsNum(y) THEN Special(x, y)
  ELSE IF x.k = "inf" THEN Flag(IF y.k = "inf" THEN NaN ELSE Inf, FALSE)
  ELSE IF y.k = "inf" THEN Flag(Zero, FALSE)
  ELSE Status(x, y, Round(x.m, y.m, x.e - y.e))

\* hi + lo for finite hi >= lo: lo is aligned on hi unless it is below half
\* a unit in the last place of hi.
AddAligned(hi, lo) ==
  IF lo.m = 0 \/ hi.e - lo.e > Prec + 1
  THEN Flag(hi, IsNormal(hi) \/ IsZero(hi))
  ELSE Round(hi.m * (2 ^ (hi.e - lo.e)) + lo.m, 1, lo.e)

FAddV(x, y) ==
  IF ~IsNum(x) \/ ~IsNum(y) THEN Special(x, y)
  ELSE IF x.k = "inf" \/ y.k = "inf" THEN Flag(Inf, FALSE)
  ELSE Status(x, y,
              IF FLessV(x, y) THEN AddAligned(y, x) ELSE AddAligned(x, y))

\* x - y for x >= y (the only subtraction is 1 - porosity_frac, with
\* porosity_frac <= 1).
FSubV(x, y) ==
  IF ~IsNum(x) \/ ~IsNum(y) THEN Special(x, y)
  ELSE IF x.k = "inf" \/ y.k = "inf" THEN Flag(NaN, FALSE)
  ELSE Status(x, y,
              IF y.m = 0 \/ x.e - y.e > Prec + 1
              THEN Flag(x, IsNormal(x) \/ IsZero(x))
              ELSE Round(x.m * (2 ^ (x.e - y.e)) - y.m, 1, y.e))

\* Python evaluates both operands, then applies the operator to the values.
FLessF[p \in Operands] == FLessV(p[1], p[2])

FMulF[p \in Operands] == FMulV(p[1], p[2])

FDivF[p \in Operands] == FDivV(p[1], p[2])

FAddF[p \in Operands] == FAddV(p[1], p[2])

FSubF[p \in Operands] == FSubV(p[1], p[2])

FLess(x, y) == FLessF[<<x, y>>]

FMul(x, y) == FMulF[<<x, y>>]

FDiv(x, y) == FDivF[<<x, y>>]

FAdd(x, y) == FAddF[<<x, y>>]

FSub(x, y) == FSubF[<<x, y>>]

\* The test `x > 0` of the source.
FGt0(x) == FLess(Zero, x)

(***************************************************************************)
(* The module-level tables of the script.                                  *)
(***************************************************************************)
InitDefaultValues ==
  [areal_capacity |-> Lit(6, 1),
   cam_mass_loading |-> Lit(27, 1),
   cam_wt_percent |-> Lit(93, 1),
   layer |-> Lit(100, 1),
   mat_thickness |-> Lit(60, 1),
   polymer_wt_sep |-> Lit(100, 1),
   li_salt_wt_sep |-> Lit(0, 1),
   ceramic_wt_sep |-> Lit(0, 1),
   thickness_sep |-> Lit(15, 1),
   porosity_sep |-> Lit(45, 1),
   cell_layers |-> 15,
   cell_voltage |-> Lit(385, 100),
   single_layer_area |-> Lit(54, 1),
   li_foil_thickness |-> Lit(30, 1),
   discharged_mat_loading |-> Lit(2982816, 1000000),
   cell_laminate_pouch_thickness |-> Lit(88, 1)]

InitConstants ==
  [polymer_density |-> Lit(17, 10),
   li_salt_density |-> Lit(133, 100),
   ceramic_density |-> Lit(561, 100),
   li_density |-> Lit(534, 1000),
   liquid_electrolyte_density |-> Lit(12, 10),
   mg_per_mah |-> Lit(138, 100),
   al_foil_loading |-> Lit(289, 100),
   al_laminate_pouch_loading |-> Lit(58, 1),
   al_tab_loading |-> Lit(875, 100),
   ni_tab_loading |-> Lit(30, 1)]

\* The fourteen arguments of calculate_metrics, in the widgets' names.
ArgNames ==
  {"areal_capacity", "cam_mass_loading", "cam_wt_percent", "layer",
   "mat_thickness", "polymer_wt_sep", "li_salt_wt_sep", "ceramic_wt_sep",
   "thickness_sep", "porosity_sep", "cell_layers", "cell_voltage",
   "single_layer_area", "li_foil_thickness"}

DefaultArgs(dv) == [f \in ArgNames |-> dv[f]]

(***************************************************************************)
(* One call of calculate_metrics is a frame: the arguments, the locals     *)
(* (Unset until assigned), the exception raised if any, the returned       *)
(* triple, and the floating-point status range_ok of the call.  The body   *)
(* is executed statement by statement; LineN is the statement that starts  *)
(* at line N of src/battery_tool.py.                                       *)
(***************************************************************************)
NoResult == [capacity |-> Unset, g_energy_d |-> Unset, v_energy_d |-> Unset]

Enter(a) ==
  [args |-> a, raised |-> "none", range_ok |-> TRUE, result |-> NoResult,
   discharged_mat_loading |-> Unset,
   cell_laminate_pouch_thickness |-> Unset,
   polymer_wt_frac |-> Unset, li_salt_wt_frac |-> Unset,
   ceramic_wt_frac |-> Unset, porosity_frac |-> Unset,
   capacity |-> Unset,
   total_layer_thickness |-> Unset, li_foil_total_thickness |-> Unset,
   pouch_total_thickness |-> Unset, cell_thickness |-> Unset,
   cell_volume |-> Unset,
   separator_density |-> Unset, mass_loading_sep |-> Unset,
   total_cathode_mass_loading_per_side |-> Unset,
   cathode_layer_weight |-> Unset, anode_weight |-> Unset,
   separator_weight |-> Unset, lithium_foil_weight |-> Unset,
   al_foil_weight |-> Unset, al_laminate_pouch_weight |-> Unset,
   al_tab_weight |-> Unset, ni_tab_weight |-> Unset,
   liquid_electrolyte_weight |-> Unset, cell_weight |-> Unset,
   g_energy_d |-> Unset, v_energy_d |-> Unset]

\* The assignment `name = x`: if evaluating x raised, the call ends there
\* with the exception; otherwise the local takes the value.
AssignV(fr, name, v) ==
  IF v.k = "zde"
  THEN [fr EXCEPT !.raised = "ZeroDivisionError", !.range_ok = FALSE]
  ELSE [fr EXCEPT ![name] = Clean(v), !.range_ok = @ /\ v.ok]

Assign(fr, name, x) == CHOOSE r \in {AssignV(fr, name, v) : v \in {x}} : TRUE

\* Statement L runs on the frame the statements before it left, unless one
\* of them raised.
Then(fr, L(_)) ==
  CHOOSE r \in {IF v.raised = "none" THEN L(v) ELSE v : v \in {fr}} : TRUE

Line74(fr, dv) ==
  Assign(fr, "discharged_mat_loading", dv.discharged_mat_loading)

Line75(fr, dv) ==
  Assign(fr, "cell_laminate_pouch_thickness",
         dv.cell_laminate_pouch_thickness)

Line78(fr) ==
  Assign(fr, "polymer_wt_frac", FDiv(fr.args.polymer_wt_sep, c100))

Line79(fr) ==
  Assign(fr, "li_salt_wt_frac", FDiv(fr.args.li_salt_wt_sep, c100))

Line80(fr) ==
  Assign(fr, "ceramic_wt_frac", FDiv(fr.args.ceramic_wt_sep, c100))

Line81(fr) ==
  Assign(fr, "porosity_frac", FDiv(fr.args.porosity_sep, c100))

Line84NoFactor2(fr) ==
  Assign(fr, "capacity",
         FDiv(FMul(FMul(fr.args.areal_capacity, fr.args.single_layer_area),
                   FromInt(fr.args.cell_layers)),
              c1000))

Line84Inverse(fr) ==
  Assign(fr, "capacity",
         FDiv(FMul(FMul(FDiv(fr.args.single_layer_area,
                             fr.args.areal_capacity), c2),
                   FromInt(fr.args.cell_layers)),
              c1000))

Line84(fr) ==
  Assign(fr, "capacity",
         FDiv(FMul(FMul(FMul(fr.args.areal_capacity,
                             fr.args.single_layer_area), c2),
                   FromInt(fr.args.cell_layers)),
              c1000))

Line87(fr) ==
  Assign(fr, "total_layer_thickness",
         FMul(FMul(c2, FAdd(FAdd(fr.args.layer, fr.args.mat_thickness),
                            fr.args.thickness_sep)),
              FromInt(fr.args.cell_layers)))

Line88(fr) ==
  Assign(fr, "li_foil_total_thickness",
         FMul(fr.args.li_foil_thickness, FromInt(fr.args.cell_layers + 1)))

Line89(fr) ==
  Assign(fr, "pouch_total_thickness",
         FMul(c2, fr.cell_laminate_pouch_thickness))

Line90(fr) ==
  Assign(fr, "cell_thickness",
         FDiv(FAdd(FAdd(fr.total_layer_thickness,
                        fr.li_foil_total_thickness),
                   fr.pouch_total_thickness),
              c1000))

Line93Sum(fr) ==
  Assign(fr, "cell_volume",
         FMul(FAdd(fr.args.single_layer_area, FDiv(fr.cell_thickness, c10)),
              c1282))

Line93(fr) ==
  Assign(fr, "cell_volume",
         FMul(FMul(fr.args.single_layer_area, FDiv(fr.cell_thickness, c10)),
              c1282))

Line96(fr, mc) ==
  Assign(fr, "separator_density",
         FAdd(FAdd(FMul(fr.polymer_wt_frac, mc.polymer_density),
                   FMul(fr.li_salt_wt_frac, mc.li_salt_density)),
              FMul(fr.ceramic_wt_frac, mc.ceramic_density)))

Line97(fr) ==
  Assign(fr, "mass_loading_sep",
         FDiv(FMul(FMul(fr.separator_density, fr.args.thickness_sep),
                   FSub(c1, fr.porosity_frac)),
              c10))

\* The if statement of lines 100-103.
Line100(fr) ==
  Assign(fr, "total_cathode_mass_loading_per_side",
         IF FGt0(fr.args.cam_wt_percent)
         THEN FDiv(fr.args.cam_mass_loading,
                   FDiv(fr.args.cam_wt_percent, c100))
         ELSE Zero)

Line104(fr) ==
  Assign(fr, "cathode_layer_weight",
         FDiv(FMul(FMul(FMul(fr.total_cathode_mass_loading_per_side,
                             fr.args.single_layer_area), c2),
                   FromInt(fr.args.cell_layers)),
              c1000))

Line107(fr) ==
  Assign(fr, "anode_weight",
         FDiv(FMul(FMul(FMul(fr.discharged_mat_loading,
                             fr.args.single_layer_area),
                        FromInt(fr.args.cell_layers)), c2),
              c1000))

Line110(fr) ==
  Assign(fr, "separator_weight",
         FDiv(FMul(FMul(FMul(fr.mass_loading_sep,
                             fr.args.single_layer_area),
                        FromInt(fr.args.cell_layers)), c2),
              c1000))

Line113(fr, mc) ==
  Assign(fr, "lithium_foil_weight",
         FDiv(FMul(FMul(FDiv(FMul(fr.args.li_foil_thickness, mc.li_density),
                             c10),
                        fr.args.single_layer_area),
                   FromInt(fr.args.cell_layers + 1)),
              c1000))

Line114(fr, mc) ==
  Assign(fr, "al_foil_weight",
         FDiv(FMul(FMul(mc.al_foil_loading, fr.args.single_layer_area),
                   FromInt(fr.args.cell_layers)),
              c1000))

Line115NoArea(fr, mc) ==
  Assign(fr, "al_laminate_pouch_weight",
         FDiv(mc.al_laminate_pouch_loading, c1000))

Line115(fr, mc) ==
  Assign(fr, "al_laminate_pouch_weight",
         FDiv(FMul(mc.al_laminate_pouch_loading, fr.args.single_layer_area),
              c1000))

Line116(fr, mc) ==
  Assign(fr, "al_tab_weight",
         FDiv(FMul(mc.al_tab_loading, fr.args.single_layer_area), c1000))

Line117(fr, mc) ==
  Assign(fr, "ni_tab_weight",
         FDiv(FMul(mc.ni_tab_loading, fr.args.single_layer_area), c1000))

Line118(fr, mc) ==
  Assign(fr, "liquid_electrolyte_weight",
         FDiv(FMul(FMul(mc.mg_per_mah, fr.capacity), c1000), c1000))

\* The sum of lines 121-123, added left to right.
Line121(fr) ==
  Assign(fr, "cell_weight",
         FAdd(FAdd(FAdd(FAdd(FAdd(FAdd(FAdd(FAdd(
           fr.lithium_foil_weight, fr.cathode_layer_weight),
           fr.separator_weight), fr.anode_weight),
           fr.al_foil_weight), fr.al_laminate_pouch_weight),
           fr.al_tab_weight), fr.ni_tab_weight),
           fr.liquid_electrolyte_weight))

Line126Inverse(fr) ==
  Assign(fr, "g_energy_d",
         IF FGt0(fr.cell_weight)
         THEN FMul(FDiv(FDiv(fr.capacity, fr.args.cell_voltage),
                        fr.cell_weight), c1000)
         ELSE Zero)

\* The if statement of lines 126-129.
Line126(fr) ==
  Assign(fr, "g_energy_d",
         IF FGt0(fr.cell_weight)
         THEN FMul(FDiv(FMul(fr.args.cell_voltage, fr.capacity),
                        fr.cell_weight), c1000)
         ELSE Zero)

\* The if statement of lines 130-133.
Line130(fr) ==
  Assign(fr, "v_energy_d",
         IF FGt0(fr.cell_volume)
         THEN FMul(FDiv(FMul(fr.args.cell_voltage, fr.capacity),
                        fr.cell_volume), c1000)
         ELSE Zero)

Line135(fr) ==
  [fr EXCEPT !.result = [capacity |-> fr.capacity,
                         g_energy_d |-> fr.g_energy_d,
                         v_energy_d |-> fr.v_energy_d]]

\* The frame calculate_metrics leaves when called with arguments a while
\* the module tables are dv (default_values) and mc (the constants).
calculate_metrics(a, dv, mc) ==
  Then(Then(Then(Then(Then(Then(Then(Then(Then(Then(
  Then(Then(Then(Then(Then(Then(Then(Then(Then(Then(
  Then(Then(Then(Then(Then(Then(Then(
  Line74(Enter(a), dv),
  LAMBDA f : Line75(f, dv)),
  Line78), Line79), Line80), Line81),
  Line84),
  Line87), Line88), Line89), Line90),
  Line93),
  LAMBDA f : Line96(f, mc)),
  Line97),
  Line100), Line104),
  Line107),
  Line110),
  LAMBDA f : Line113(f, mc)),
  LAMBDA f : Line114(f, mc)),
  LAMBDA f : Line115(f, mc)),
  LAMBDA f : Line116(f, mc)),
  LAMBDA f : Line117(f, mc)),
  LAMBDA f : Line118(f, mc)),
  Line121),
  Line126), Line130),
  Line135)

\* What a call leaves in default_values: it only reads the table.
GlobalsAfterCallDrift(dv) ==
  [dv EXCEPT !.discharged_mat_loading = FMul(c2, @)]

GlobalsAfterCall(dv) == dv

SmallArea == Fin(HalfP, Emin + 4)

Choices(f) ==
  CASE f = "areal_capacity" ->
         {Zero, Lit(5, 4), Lit(81, 64), Lit(6, 1), Lit(8, 1)}
    [] f = "cam_mass_loading" -> {Zero, Lit(27, 1)}
    [] f = "cam_wt_percent" -> {Zero, MinSubnormal, Lit(93, 1)}
    [] f = "layer" -> {Zero, Lit(100, 1)}
    [] f = "mat_thickness" -> {Zero, Lit(60, 1)}
    [] f = "li_foil_thickness" -> {Zero, Lit(30, 1)}
    [] f = "polymer_wt_sep" -> {Zero, Lit(100, 1)}
    [] f = "li_salt_wt_sep" -> {Zero, Lit(100, 1)}
    [] f = "ceramic_wt_sep" -> {Zero, Lit(100, 1)}
    [] f = "thickness_sep" -> {Zero, Lit(15, 1)}
    [] f = "porosity_sep" -> {Lit(45, 1), Lit(100, 1)}
    [] f = "cell_layers" -> {1, 15}
    [] f = "cell_voltage" ->
         {Zero, Lit(53, 64), Lit(107, 128), Lit(385, 100)}
    [] f = "single_layer_area" ->
         {Zero, MinSubnormal, SmallArea, FMul(FromInt(2), SmallArea),
          Lit(54, 1), Lit(108, 1), MaxFloat}

VARIABLES default_values, module_constants, inputs, cur, prev, edits

vars == <<default_values, module_constants, inputs, cur, prev, edits>>

\* The script's first run: every widget shows its default (value=...).
\* cur is the frame of the latest call, prev the frame of the call before it
\* (the first call has none before it, prev starts equal to cur).
Init ==
  /\ default_values = InitDefaultValues
  /\ module_constants = InitConstants
  /\ inputs = DefaultArgs(InitDefaultValues)
  /\ cur = calculate_metrics(DefaultArgs(InitDefaultValues),
                             InitDefaultValues, InitConstants)
  /\ prev = calculate_metrics(DefaultArgs(InitDefaultValues),
                              InitDefaultValues, InitConstants)
  /\ edits = 0

\* The script body from line 48 to line 142 on one run with widget values w.
RunScript(w) ==
  /\ inputs' = w
  /\ prev' = cur
  /\ cur' = calculate_metrics(w, default_values, module_constants)
  /\ default_values' = GlobalsAfterCall(default_values)
  /\ UNCHANGED module_constants

\* The user changes widget f to v; the script re-runs.
Edit(f, v) ==
  /\ edits < MaxEdits
  /\ v # inputs[f]
  /\ edits' = edits + 1
  /\ RunScript([inputs EXCEPT ![f] = v])

Set_areal_capacity ==
  \E v \in Choices("areal_capacity") : Edit("areal_capacity", v)

Set_cam_mass_loading ==
  \E v \in Choices("cam_mass_loading") : Edit("cam_mass_loading", v)

Set_cam_wt_percent ==
  \E v \in Choices("cam_wt_percent") : Edit("cam_wt_percent", v)

Set_layer ==
  \E v \in Choices("layer") : Edit("layer", v)

Set_mat_thickness ==
  \E v \in Choices("mat_thickness") : Edit("mat_thickness", v)

Set_li_foil_thickness ==
  \E v \in Choices("li_foil_thickness") : Edit("li_foil_thickness", v)

Set_polymer_wt_sep ==
  \E v \in Choices("polymer_wt_sep") : Edit("polymer_wt_sep", v)

Set_li_salt_wt_sep ==
  \E v \in Choices("li_salt_wt_sep") : Edit("li_salt_wt_sep", v)

Set_ceramic_wt_sep ==
  \E v \in Choices("ceramic_wt_sep") : Edit("ceramic_wt_sep", v)

Set_thickness_sep ==
  \E v \in Choices("thickness_sep") : Edit("thickness_sep", v)

Set_porosity_sep ==
  \E v \in Choices("porosity_sep") : Edit("porosity_sep", v)

Set_cell_layers ==
  \E v \in Choices("cell_layers") : Edit("cell_layers", v)

Set_cell_voltage ==
  \E v \in Choices("cell_voltage") : Edit("cell_voltage", v)

Set_single_layer_area ==
  \E v \in Choices("single_layer_area") : Edit("single_layer_area", v)

\* A re-run with no widget changed.
Rerun ==
  /\ UNCHANGED edits
  /\ RunScript(inputs)

Next ==
  \/ Set_areal_capacity
  \/ Set_cam_mass_loading
  \/ Set_cam_wt_percent
  \/ Set_layer
  \/ Set_mat_thickness
  \/ Set_li_foil_thickness
  \/ Set_polymer_wt_sep
  \/ Set_li_salt_wt_sep
  \/ Set_ceramic_wt_sep
  \/ Set_thickness_sep
  \/ Set_porosity_sep
  \/ Set_cell_layers
  \/ Set_cell_voltage
  \/ Set_single_layer_area
  \/ Rerun

Spec == Init /\ [][Next]_vars

(***************************************************************************)
(* Vocabulary of the properties.                                           *)
(***************************************************************************)
Returned(c) == c.raised = "none"

Percentages ==
  {"cam_wt_percent", "polymer_wt_sep", "li_salt_wt_sep", "ceramic_wt_sep",
   "porosity_sep"}

\* The contract on an input vector: non-negative finite numbers (the format
\* has no negative ones), percentages in [0, 100], cell_layers an int >= 1.
ValidArgs(a) ==
  /\ \A f \in ArgNames \ {"cell_layers"} : IsFinite(a[f])
  /\ \A f \in Percentages : ~FLess(c100, a[f])
  /\ a.cell_layers \in Nat /\ a.cell_layers >= 1

\* The last run differs from the one before in widget f and in nothing else.
OnlyChanged(f) ==
  /\ cur.args[f] # prev.args[f]
  /\ \A g \in ArgNames \ {f} : cur.args[g] = prev.args[g]

\* Two expressions give the same number, whatever their status.
SameNum(x, y) == Clean(x) = Clean(y)

\* y is the float product 2 * x.
Doubled(x, y) == SameNum(y, FMul(c2, x))

\* C1 (as claimed): calculate_metrics is total: on every valid input vector
\* it returns a (capacity, gravimetric, volumetric) triple and raises nothing.
C1_Total ==
  ValidArgs(cur.args) =>
    /\ cur.raised = "none"
    /\ cur.result.capacity # Unset /\ cur.result.g_energy_d # Unset
    /\ cur.result.v_energy_d # Unset

VoltageIncreased ==
  /\ OnlyChanged("cell_voltage")
  /\ FLess(prev.args.cell_voltage, cur.args.cell_voltage)

ArealCapacityIncreased ==
  /\ OnlyChanged("areal_capacity")
  /\ FLess(prev.args.areal_capacity, cur.args.areal_capacity)

\* C4 (as claimed): with every other input fixed, a larger areal_capacity
\* gives a strictly larger capacity.
C4_StrictlyIncreasing ==
  ArealCapacityIncreased => FLess(prev.capacity, cur.capacity)

\* C4 (amended): with every other input fixed, a larger areal_capacity never
\* gives a smaller capacity, and with single_layer_area = 0 the capacity
\* stays 0.
C4_NeverDecreases ==
  ArealCapacityIncreased =>
    /\ ~FLess(cur.capacity, prev.capacity)
    /\ IsNum(cur.capacity) /\ IsNum(prev.capacity)
    /\ (cur.args.single_layer_area = Zero =>
          cur.capacity = Zero /\ prev.capacity = Zero)

C4_Witness ==
  ArealCapacityIncreased /\ FLess(prev.capacity, cur.capacity)

AreaDoubled ==
  /\ OnlyChanged("single_layer_area")
  /\ Doubled(prev.args.single_layer_area, cur.args.single_layer_area)

ScalesWithArea ==
  /\ Doubled(prev.capacity, cur.capacity)
  /\ Doubled(prev.cell_volume, cur.cell_volume)
  /\ Doubled(prev.cathode_layer_weight, cur.cathode_layer_weight)
  /\ Doubled(prev.anode_weight, cur.anode_weight)
  /\ Doubled(prev.separator_weight, cur.separator_weight)
  /\ Doubled(prev.lithium_foil_weight, cur.lithium_foil_weight)
  /\ Doubled(prev.al_foil_weight, cur.al_foil_weight)
  /\ Doubled(prev.al_laminate_pouch_weight, cur.al_laminate_pouch_weight)
  /\ Doubled(prev.al_tab_weight, cur.al_tab_weight)
  /\ Doubled(prev.ni_tab_weight, cur.ni_tab_weight)
  /\ Doubled(prev.liquid_electrolyte_weight, cur.liquid_electrolyte_weight)
  /\ cur.g_energy_d = prev.g_energy_d
  /\ cur.v_energy_d = prev.v_energy_d

\* C5 (as claimed): doubling single_layer_area, everything else fixed, exactly
\* doubles capacity, cell volume and the nine component weights and leaves
\* both energy densities unchanged, for every valid input.
C5_Scaling ==
  AreaDoubled /\ Returned(prev) /\ Returned(cur) => ScalesWithArea

\* C5 (amended): the same, for the inputs on which no operation of either
\* call overflows or underflows.
C5_ScalingInRange ==
  AreaDoubled /\ prev.range_ok /\ cur.range_ok => ScalesWithArea

C5_Witness ==
  /\ AreaDoubled /\ prev.range_ok /\ cur.range_ok
  /\ FGt0(prev.capacity) /\ FGt0(prev.g_energy_d)
  /\ ScalesWithArea

\* C6 (as claimed): with cam_wt_percent = 0 the per-side cathode loading and
\* the cathode layer weight are 0 and nothing is divided by zero; with
\* cam_wt_percent > 0 the loading is cam_mass_loading / (cam_wt_percent/100).
C6_CathodeGuard ==
  /\ (cur.args.cam_wt_percent = Zero =>
        /\ cur.raised = "none"
        /\ cur.total_cathode_mass_loading_per_side = Zero
        /\ cur.cathode_layer_weight = Zero)
  /\ (FGt0(cur.args.cam_wt_percent) =>
        /\ cur.raised # "ZeroDivisionError"
        /\ SameNum(cur.total_cathode_mass_loading_per_side,
                   FDiv(cur.args.cam_mass_loading,
                        FDiv(cur.args.cam_wt_percent, c100))))

\* C7 (as claimed): with cell_layers = 0 and single_layer_area = 0 the cell
\* volume is 0 and the volumetric density is reported as 0 without an error;
\* whenever cell_volume <= 0 the volumetric density returned is 0.
C7_VolumeGuard ==
  /\ (cur.args.cell_layers = 0 /\ cur.args.single_layer_area = Zero =>
        cur.raised = "none" /\ cur.cell_volume = Zero)
  /\ (~FGt0(cur.cell_volume) =>
        cur.raised = "none" /\ cur.v_energy_d = Zero)

\* C8: capacity is areal_capacity * single_layer_area * 2 * cell_layers / 1000,
\* it is what the call returns, no other input changes it, and the default
\* inputs give 9.72.
C8_Capacity ==
  /\ SameNum(cur.capacity,
             FDiv(FMul(FMul(FMul(cur.args.areal_capacity,
                                 cur.args.single_layer_area), c2),
                       FromInt(cur.args.cell_layers)), c1000))
  /\ (Returned(cur) => cur.result.capacity = cur.capacity)
  /\ (cur.args = DefaultArgs(InitDefaultValues) =>
        cur.capacity = Lit(972, 100))
  /\ \A f \in ArgNames \
            {"areal_capacity", "single_layer_area", "cell_layers"} :
        OnlyChanged(f) => cur.capacity = prev.capacity

C8_Witness ==
  /\ edits > 0
  /\ \E f \in ArgNames \
            {"areal_capacity", "single_layer_area", "cell_layers"} :
        OnlyChanged(f)
  /\ Returned(cur) /\ cur.result.capacity = Lit(972, 100)

\* C9 (as claimed): the electrolyte weight of line 118 equals
\* mg_per_mah * capacity: the * 1000 / 1000 is a multiplication by exactly 1.
C9_ElectrolyteUnit ==
  Returned(cur) =>
    SameNum(cur.liquid_electrolyte_weight,
            FMul(module_constants.mg_per_mah, cur.capacity))

====
